---- MODULE Spec2Model ----
(***************************************************************************)
(* Model of src/app.py: the upload -> cleaning -> feature engineering ->    *)
(* presentation script of the e-commerce dashboard.                         *)
(*                                                                          *)
(* The script is one straight-line run over one table `df`.  Each statement *)
(* that reads or writes the table is one action; `pc` is the position of    *)
(* the run.  A column access on a column the table does not have raises     *)
(* KeyError and ends the run (pc = "failed").                               *)
(*                                                                          *)
(* Cells are tagged values, as pandas holds them:                           *)
(*   [t |-> "nan"]            NaN / None / <NA>                             *)
(*   [t |-> "nat"]            NaT                                           *)
(*   [t |-> "str",  v |-> s]  a text cell                                   *)
(*   [t |-> "num",  v |-> k]  a float; k counts units of 1/Scale, so that   *)
(*                            the median of two whole numbers is exact      *)
(*   [t |-> "int",  v |-> k]  an integer (week, hour)                       *)
(*   [t |-> "date", v |-> s]  a Timestamp at midnight, named by its ISO text*)
(*   [t |-> "time", v |-> s]  a datetime.time, named by its ISO text        *)
(*   [t |-> "datetime", d |-> s, h |-> s]  a Timestamp with date and time   *)
(*   [t |-> "bool", v |-> b]                                                *)
(* A row is a function from the table's columns (and "idx", the pandas      *)
(* index label, which filtering keeps) to cells.                            *)
(***************************************************************************)
EXTENDS Integers, Sequences, FiniteSets, TLC

VARIABLES
    df,        \* the table: a sequence of rows
    columns,   \* the table's column names
    pc,        \* position of the run
    err,       \* the exception that ended the run, if any
    uploaded   \* the table as read from the file (never changed)

vars == <<df, columns, pc, err, uploaded>>

-----------------------------------------------------------------------------
(* Bounds *)

MaxRows == 2
MaxMedianRows == 3

(* Fixed-point denominator of "num" cells: halves. *)
Scale == 2

-----------------------------------------------------------------------------
(* Cells *)

NaN == [t |-> "nan"]
NaT == [t |-> "nat"]
Str(s) == [t |-> "str", v |-> s]
Num(k) == [t |-> "num", v |-> k]
IntCell(k) == [t |-> "int", v |-> k]
Date(s) == [t |-> "date", v |-> s]
Time(s) == [t |-> "time", v |-> s]
Datetime(d, h) == [t |-> "datetime", d |-> d, h |-> h]
Bool(b) == [t |-> "bool", v |-> b]

(* A whole number n as a float cell. *)
Whole(n) == Num(Scale * n)

(* Series.isnull / dropna / fillna: NaN, None, NaT and <NA> are missing.   *)
IsNull(c) == c.t \in {"nan", "nat"}

(* Series > 0 and Series <= Series: a comparison with NaN is False. *)
Positive(c) == c.t = "num" /\ c.v > 0
LessEq(a, b) == a.t = "num" /\ b.t = "num" /\ a.v <= b.v

-----------------------------------------------------------------------------
(* What the parsers accept, on the texts the model feeds them. *)

NumberOf == ("0" :> 0) @@ ("1" :> 1) @@ ("2" :> 2) @@ ("3" :> 3)

ParsableDates == {"2024-01-06", "2024-01-09"}
ParsableTimes == {"10:30:00"}

(* A coercion that parses text only and turns a number into NaN. *)
ToNumericTextOnly(c) ==
    IF c.t = "str" /\ c.v \in DOMAIN NumberOf THEN Whole(NumberOf[c.v])
    ELSE NaN

(* pd.to_numeric(errors='coerce'): numbers stay, numeric text parses,       *)
(* everything else becomes NaN.                                             *)
ToNumeric(c) ==
    IF c.t = "num" THEN c
    ELSE IF c.t = "str" /\ c.v \in DOMAIN NumberOf THEN Whole(NumberOf[c.v])
    ELSE NaN

(* pd.to_datetime(errors='coerce') on the order_date column. *)
ToDate(c) ==
    IF c.t = "date" THEN c
    ELSE IF c.t = "str" /\ c.v \in ParsableDates THEN Date(c.v)
    ELSE NaT

(* pd.to_datetime(errors='coerce').dt.time on the time column: text that    *)
(* parses gives its time of day; anything else, a datetime.time object      *)
(* included (it is not convertible to a datetime), gives NaT.               *)
ToTime(c) ==
    IF c.t = "str" /\ c.v \in ParsableTimes THEN Time(c.v)
    ELSE NaT

(* Series.astype(str) on the coerced order_date and time columns. *)
AsStr(c) ==
    IF c.t \in {"date", "time", "str"} THEN c.v ELSE "NaT"

(* pd.to_datetime(errors='coerce') on the text "<date> <time>", held as the *)
(* pair of its two words: it parses only when both words do.                *)
ParseDatetime(w) ==
    IF w[1] \in ParsableDates /\ w[2] \in ParsableTimes
    THEN Datetime(w[1], w[2])
    ELSE NaT

-----------------------------------------------------------------------------
(* Table helpers *)

KeyCols == {"order_id", "product_id", "customer_id"}

RawCols == {"order_id", "product_id", "customer_id", "category", "region",
            "payment_method", "order_date", "time", "price", "discount",
            "quantity"}

(* df[col] = vals: assignment of a whole column, vals[i] to row i. *)
SetCol(t, col, vals) ==
    [i \in 1..Len(t) |->
        [c \in (DOMAIN t[i]) \cup {col} |-> IF c = col THEN vals[i] ELSE t[i][c]]]

Key(r) == <<r["order_id"], r["product_id"], r["customer_id"]>>

(* An exception: its type, the column name(s) it reports and, once raised, *)
(* the position of the statement that raised it.                            *)
Raised(type, cols) == [type |-> type, key |-> cols, at |-> ""]
KeyError(col) == Raised("KeyError", {col})
NoError == Raised("none", {})

(* Statements read columns in the order `reads`; the first one the table   *)
(* lacks is the one the exception names ("" when none is missing).          *)
RECURSIVE FirstMissing(_, _)
FirstMissing(reads, cols) ==
    IF reads = <<>> THEN ""
    ELSE IF Head(reads) \notin cols THEN Head(reads)
    ELSE FirstMissing(Tail(reads), cols)

-----------------------------------------------------------------------------
(* Step 3: type coercion, one column per statement *)

CoerceOrderDate(t) == 
    SetCol(t, "order_date", [i \in 1..Len(t) |-> ToDate(t[i]["order_date"])])
CoerceTime(t) == 
    SetCol(t, "time", [i \in 1..Len(t) |-> ToTime(t[i]["time"])])
CoercePrice(t) == 
    SetCol(t, "price", [i \in 1..Len(t) |-> ToNumeric(t[i]["price"])])
CoerceDiscount(t) == 
    SetCol(t, "discount", [i \in 1..Len(t) |-> ToNumeric(t[i]["discount"])])
CoerceQuantity(t) == 
    SetCol(t, "quantity", [i \in 1..Len(t) |-> ToNumeric(t[i]["quantity"])])

-----------------------------------------------------------------------------
(* Step 4: missing values *)

DropNaKeys(t) ==
    SelectSeq(t, LAMBDA r: \A k \in KeyCols: ~IsNull(r[k]))

(* Insertion of x into an ascending sequence. *)
RECURSIVE Insert(_, _)
Insert(x, s) ==
    IF s = <<>> THEN <<x>>
    ELSE IF x <= Head(s) THEN <<x>> \o s
    ELSE <<Head(s)>> \o Insert(x, Tail(s))

RECURSIVE SortedValues(_)
SortedValues(t) ==
    IF t = <<>> THEN <<>>
    ELSE IF IsNull(Head(t)["quantity"]) THEN SortedValues(Tail(t))
    ELSE Insert(Head(t)["quantity"].v, SortedValues(Tail(t)))

(* A median that takes the upper of the two middle values. *)
MedianUpperMiddle(t) ==
    LET s == SortedValues(t)
        n == Len(s)
    IN  IF n = 0 THEN NaN ELSE Num(s[n \div 2 + 1])

(* Series.median(): NaN skipped; the middle value, or the mean of the two   *)
(* middle values; NaN when no value is left.                                *)
Median(t) ==
    LET s == SortedValues(t)
        n == Len(s)
    IN  IF n = 0 THEN NaN
        ELSE IF n % 2 = 1 THEN Num(s[(n + 1) \div 2])
        ELSE Num((s[n \div 2] + s[n \div 2 + 1]) \div 2)

FillNaQuantity(t) ==
    LET m == Median(t)
    IN  SetCol(t, "quantity",
               [i \in 1..Len(t) |->
                   IF IsNull(t[i]["quantity"]) THEN m ELSE t[i]["quantity"]])

-----------------------------------------------------------------------------
(* Step 5: duplicates *)

(* keep='last' instead of the default keep='first'. *)
DropDuplicatesKeepLast(t) ==
    LET keep(i) == \A j \in (i + 1)..Len(t): Key(t[j]) # Key(t[i])
        RECURSIVE pick(_)
        pick(i) == IF i > Len(t) THEN <<>>
                   ELSE (IF keep(i) THEN <<t[i]>> ELSE <<>>) \o pick(i + 1)
    IN  pick(1)

(* De-duplication that looks at validity first: per key triple it keeps the *)
(* first valid row, as if the validity filter had run before it.            *)
DropDuplicatesValidFirst(t) ==
    LET valid(r) == /\ Positive(r["price"]) /\ Positive(r["quantity"])
                    /\ LessEq(r["discount"], r["price"])
        keep(i) == \A j \in 1..(i - 1):
                       Key(t[j]) = Key(t[i]) => (valid(t[i]) /\ ~valid(t[j]))
        RECURSIVE pick(_)
        pick(i) == IF i > Len(t) THEN <<>>
                   ELSE (IF keep(i) THEN <<t[i]>> ELSE <<>>) \o pick(i + 1)
    IN  pick(1)

DropDuplicates(t) ==
    LET keep(i) == \A j \in 1..(i - 1): Key(t[j]) # Key(t[i])
        RECURSIVE pick(_)
        pick(i) == IF i > Len(t) THEN <<>>
                   ELSE (IF keep(i) THEN <<t[i]>> ELSE <<>>) \o pick(i + 1)
    IN  pick(1)

-----------------------------------------------------------------------------
(* Step 6: invalid entries *)

FilterPositive(t) ==
    SelectSeq(t, LAMBDA r: Positive(r["price"]) /\ Positive(r["quantity"]))

(* A filter that lets a missing discount through. *)
FilterDiscountKeepNull(t) ==
    SelectSeq(t, LAMBDA r: IsNull(r["discount"]) \/ LessEq(r["discount"], r["price"]))

FilterDiscount(t) ==
    SelectSeq(t, LAMBDA r: LessEq(r["discount"], r["price"]))

-----------------------------------------------------------------------------
(* Step 7: combined datetime *)

(* A composition that reads a missing time as midnight. *)
OrderDatetimeMidnight(r) ==
    IF r["order_date"].t = "date"
    THEN Datetime(r["order_date"].v,
                  IF r["time"].t = "time" THEN r["time"].v ELSE "00:00:00")
    ELSE NaT

OrderDatetime(r) ==
    ParseDatetime(<<AsStr(r["order_date"]), AsStr(r["time"])>>)

AddOrderDatetime(t) ==
    SetCol(t, "order_datetime", [i \in 1..Len(t) |-> OrderDatetime(t[i])])

-----------------------------------------------------------------------------
(* Feature engineering *)

(* Revenue rounded down to whole units. *)
RevenueRounded(r) ==
    LET q == r["quantity"]
        p == r["price"]
        d == r["discount"]
    IN  IF q.t = "num" /\ p.t = "num" /\ d.t = "num"
        THEN Whole((q.v * (p.v - d.v)) \div (Scale * Scale))
        ELSE NaN

(* quantity * (price - discount) on floats; NaN propagates. *)
Revenue(r) ==
    LET q == r["quantity"]
        p == r["price"]
        d == r["discount"]
    IN  IF q.t = "num" /\ p.t = "num" /\ d.t = "num"
        THEN Num((q.v * (p.v - d.v)) \div Scale)
        ELSE NaN

AddRevenue(t) ==
    SetCol(t, "revenue", [i \in 1..Len(t) |-> Revenue(t[i])])

(* Calendar facts of the dates and times the model uses. *)
WeekOf == ("2024-01-06" :> 1) @@ ("2024-01-09" :> 2)
MonthOf == ("2024-01-06" :> "2024-01") @@ ("2024-01-09" :> "2024-01")
DayNameOf == ("2024-01-06" :> "Saturday") @@ ("2024-01-09" :> "Tuesday")
HourOf == ("10:30:00" :> 10) @@ ("00:00:00" :> 0)

Day(r) == LET x == r["order_datetime"] IN
    IF x.t = "datetime" THEN Date(x.d) ELSE NaT
Week(r) == LET x == r["order_datetime"] IN
    IF x.t = "datetime" THEN IntCell(WeekOf[x.d]) ELSE NaN
(* .dt.to_period("M").astype(str): the missing period prints as "NaT". *)
Month(r) == LET x == r["order_datetime"] IN
    IF x.t = "datetime" THEN Str(MonthOf[x.d]) ELSE Str("NaT")
Hour(r) == LET x == r["order_datetime"] IN
    IF x.t = "datetime" THEN IntCell(HourOf[x.h]) ELSE NaN
DayOfWeek(r) == LET x == r["order_datetime"] IN
    IF x.t = "datetime" THEN Str(DayNameOf[x.d]) ELSE NaN

TimeCols == {"day", "week", "month", "hour", "dayofweek"}

AllNull(t, col) == \A i \in 1..Len(t): IsNull(t[i][col])

AddTimeFeatures(t) ==
    LET n == Len(t)
        t1 == SetCol(t, "day", [i \in 1..n |-> Day(t[i])])
        t2 == SetCol(t1, "week", [i \in 1..n |-> Week(t[i])])
        t3 == SetCol(t2, "month", [i \in 1..n |-> Month(t[i])])
        t4 == SetCol(t3, "hour", [i \in 1..n |-> Hour(t[i])])
    IN  SetCol(t4, "dayofweek", [i \in 1..n |-> DayOfWeek(t[i])])

(* A weekend of Sunday alone. *)
IsWeekendSundayOnly(r) ==
    Bool(r["dayofweek"].t = "str" /\ r["dayofweek"].v \in {"Sunday"})

IsWeekend(r) ==
    Bool(r["dayofweek"].t = "str" /\ r["dayofweek"].v \in {"Saturday", "Sunday"})

AddIsWeekend(t) ==
    SetCol(t, "is_weekend", [i \in 1..Len(t) |-> IsWeekend(t[i])])

-----------------------------------------------------------------------------
(* The run *)

Fail(e) ==
    /\ pc' = "failed"
    /\ err' = [e EXCEPT !.at = pc]
    /\ UNCHANGED <<df, columns>>

(* One statement block: it reads the columns `reads`; if one is missing it  *)
(* raises KeyError, else the table becomes t with the columns cols and the  *)
(* run moves to `next`.                                                     *)
Stmt(reads, next, t, cols) ==
    /\ LET m == FirstMissing(reads, columns)
       IN  IF m # "" THEN Fail(KeyError(m))
           ELSE /\ df' = t
                /\ columns' = cols
                /\ pc' = next
                /\ err' = err
    /\ UNCHANGED uploaded

(* A block that only reads the table. *)
ReadOnly(reads, next) == Stmt(reads, next, df, columns)

(* Line 13: pd.read_csv. *)
LoadDataset ==
    /\ pc = "load"
    /\ df' = uploaded.rows
    /\ columns' = uploaded.columns
    /\ pc' = "order_date"
    /\ UNCHANGED <<err, uploaded>>

(* Lines 18-23. *)
ConvertOrderDate ==
    /\ pc = "order_date"
    /\ Stmt(<<"order_date">>, "time", CoerceOrderDate(df), columns)
ConvertTime ==
    /\ pc = "time"
    /\ Stmt(<<"time">>, "price", CoerceTime(df), columns)
ConvertPrice ==
    /\ pc = "price"
    /\ Stmt(<<"price">>, "discount", CoercePrice(df), columns)
ConvertDiscount ==
    /\ pc = "discount"
    /\ Stmt(<<"discount">>, "quantity", CoerceDiscount(df), columns)
ConvertQuantity ==
    /\ pc = "quantity"
    /\ Stmt(<<"quantity">>, "dropna", CoerceQuantity(df), columns)

(* Line 26. *)
HandleMissingKeys ==
    /\ pc = "dropna"
    /\ Stmt(<<"order_id", "product_id", "customer_id">>, "fillna",
         DropNaKeys(df), columns)

(* Line 27: the median is taken of the table line 26 left. *)
HandleMissingQuantity ==
    /\ pc = "fillna"
    /\ Stmt(<<"quantity">>, "duplicates", FillNaQuantity(df), columns)

(* Line 30. *)
RemoveDuplicates ==
    /\ pc = "duplicates"
    /\ Stmt(<<"order_id", "product_id", "customer_id">>, "positive",
         DropDuplicates(df), columns)

(* Line 33. *)
HandleInvalidPriceQuantity ==
    /\ pc = "positive"
    /\ Stmt(<<"price", "quantity">>, "discount_le_price",
         FilterPositive(df), columns)

(* Line 34. *)
HandleInvalidDiscount ==
    /\ pc = "discount_le_price"
    /\ Stmt(<<"discount", "price">>, "order_datetime",
         FilterDiscount(df), columns)

(* Lines 37-40. *)
CreateOrderDatetime ==
    /\ pc = "order_datetime"
    /\ Stmt(<<"order_date", "time">>, "revenue",
         AddOrderDatetime(df), columns \cup {"order_datetime"})

(* Line 47. *)
ComputeRevenue ==
    /\ pc = "revenue"
    /\ Stmt(<<"quantity", "price", "discount">>, "time_features",
         AddRevenue(df), columns \cup {"revenue"})

(* Lines 49-54: the five columns are created only when some order_datetime  *)
(* is not null.                                                             *)
ComputeTimeFeatures ==
    /\ pc = "time_features"
    /\ Stmt(<<"order_datetime">>, "preview",
         IF AllNull(df, "order_datetime") THEN df ELSE AddTimeFeatures(df),
         IF AllNull(df, "order_datetime") THEN columns ELSE columns \cup TimeCols)

(* Line 57: df[[...]] raises KeyError naming every listed column the table  *)
(* lacks.                                                                   *)
PreviewCols == {"order_id", "revenue", "day", "week", "month", "hour", "dayofweek"}

FeaturesPreview ==
    /\ pc = "preview"
    /\ IF PreviewCols \subseteq columns
       THEN pc' = "univariate" /\ UNCHANGED <<df, columns, err>>
       ELSE Fail(Raised("KeyError", PreviewCols \ columns))
    /\ UNCHANGED uploaded

(* Lines 62-104.  Line 69 divides by the number of distinct customers. *)
UnivariateAnalysis ==
    /\ pc = "univariate"
    /\ LET reads == <<"order_id", "customer_id", "product_id", "category",
                      "quantity", "price", "discount", "region",
                      "payment_method", "order_datetime">>
                    \o (IF "order_datetime" \in columns /\ ~AllNull(df, "order_datetime")
                        THEN <<"day", "week", "hour">> ELSE <<>>)
           m == FirstMissing(reads, columns)
       IN  IF m \in {"order_id", "customer_id"} THEN Fail(KeyError(m))
           ELSE IF Len(df) = 0 THEN Fail(Raised("ZeroDivisionError", {}))
           ELSE IF m # "" THEN Fail(KeyError(m))
           ELSE pc' = "bivariate" /\ UNCHANGED <<df, columns, err>>
    /\ UNCHANGED uploaded

(* Lines 109-139. *)
BivariateAnalysis ==
    /\ pc = "bivariate"
    /\ ReadOnly(<<"category", "revenue", "region", "payment_method", "price",
               "quantity">>
             \o (IF "order_datetime" \in columns THEN <<"dayofweek">> ELSE <<>>),
             "time_series")

(* Lines 144-166: line 160 writes the column is_weekend. *)
TimeSeriesAnalysis ==
    /\ pc = "time_series"
    /\ IF "order_datetime" \in columns
       THEN Stmt(<<"day", "revenue", "week", "month", "dayofweek", "hour">>,
                 "customer", AddIsWeekend(df), columns \cup {"is_weekend"})
       ELSE ReadOnly(<<>>, "customer")

(* Lines 171-191. *)
CustomerAnalysis ==
    /\ pc = "customer"
    /\ ReadOnly(<<"customer_id", "order_id", "revenue">>, "product")

(* Lines 196-218. *)
ProductAnalysis ==
    /\ pc = "product"
    /\ ReadOnly(<<"product_id", "revenue", "quantity", "discount", "category">>,
             "regional")

(* Lines 223-241. *)
RegionalAnalysis ==
    /\ pc = "regional"
    /\ ReadOnly(<<"region", "revenue", "order_id">>, "payment")

(* Lines 246-256. *)
PaymentInsights ==
    /\ pc = "payment"
    /\ ReadOnly(<<"payment_method", "revenue">>, "insights")

(* Lines 261-287. *)
InsightsVisualizations ==
    /\ pc = "insights"
    /\ ReadOnly(<<"price", "discount", "quantity", "revenue", "day">>,
             "done")

Next ==
    \/ LoadDataset
    \/ ConvertOrderDate
    \/ ConvertTime
    \/ ConvertPrice
    \/ ConvertDiscount
    \/ ConvertQuantity
    \/ HandleMissingKeys
    \/ HandleMissingQuantity
    \/ RemoveDuplicates
    \/ HandleInvalidPriceQuantity
    \/ HandleInvalidDiscount
    \/ CreateOrderDatetime
    \/ ComputeRevenue
    \/ ComputeTimeFeatures
    \/ FeaturesPreview
    \/ UnivariateAnalysis
    \/ BivariateAnalysis
    \/ TimeSeriesAnalysis
    \/ CustomerAnalysis
    \/ ProductAnalysis
    \/ RegionalAnalysis
    \/ PaymentInsights
    \/ InsightsVisualizations

-----------------------------------------------------------------------------
(* Uploaded files *)

(* One CSV line. *)
RawRow(oid, pid, cid, od, tm, p, d, q) ==
    [order_id |-> oid, product_id |-> pid, customer_id |-> cid,
     category |-> Str("Books"), region |-> Str("North"),
     payment_method |-> Str("Card"),
     order_date |-> od, time |-> tm, price |-> p, discount |-> d,
     quantity |-> q]

(* The file with the lines f[1..n] and the columns cols; pandas labels the  *)
(* rows 0..n-1.                                                             *)
File(f, cols) ==
    [columns |-> cols,
     rows |-> [i \in 1..Len(f) |->
                 [c \in cols \cup {"idx"} |-> IF c = "idx" THEN i - 1 ELSE f[i][c]]]]

Files(rowSet, colSets, maxRows) ==
    {File(f, cols) : f \in UNION {[1..n -> rowSet] : n \in 0..maxRows},
                     cols \in colSets}

InitWith(files) ==
    /\ uploaded \in files
    /\ df = <<>>
    /\ columns = {}
    /\ pc = "load"
    /\ err = NoError

GoodDate == Str("2024-01-06")
GoodTime == Str("10:30:00")

(* Keys: each key column missing once, and two complete triples. *)
KeyTriples ==
    {<<Str("O1"), Str("A"), Str("X")>>, <<Str("O2"), Str("A"), Str("X")>>,
     <<NaN, Str("A"), Str("X")>>, <<Str("O1"), NaN, Str("X")>>,
     <<Str("O1"), Str("A"), NaN>>}

(* price, discount, quantity: valid lines, and one line for each way of     *)
(* being invalid or incomplete.                                             *)
Amounts ==
    {<<Whole(2), Whole(1), Whole(1)>>,      \* valid
     <<Str("3"), Str("3"), Str("2")>>,      \* valid, as text, discount = price
     <<Str("abc"), Whole(1), Whole(1)>>,    \* price unparsable
     <<Whole(0), Whole(0), Whole(1)>>,      \* price = 0
     <<Whole(2), NaN, Whole(1)>>,           \* discount missing
     <<Whole(2), Whole(3), Whole(1)>>,      \* discount > price
     <<Whole(2), Whole(1), NaN>>,           \* quantity missing
     <<Whole(2), Whole(1), Whole(0)>>}      \* quantity = 0

CleaningRows ==
    {RawRow(k[1], k[2], k[3], GoodDate, GoodTime, a[1], a[2], a[3]) :
        k \in KeyTriples, a \in Amounts}

Init == InitWith(Files(CleaningRows, {RawCols}, MaxRows))

Spec == Init /\ [][Next]_vars

(* Files for the median: lines with and without an order_id, and            *)
(* quantities whose medians differ with the lines counted.                  *)
MedianRows ==
    {RawRow(o, Str("A"), Str("X"), GoodDate, GoodTime, a[1], a[2], a[3]) :
        o \in {NaN, Str("O1"), Str("O2")},
        a \in {<<Whole(2), Whole(1), NaN>>, <<Whole(2), Whole(1), Str("abc")>>,
               <<Whole(2), Whole(1), Whole(1)>>, <<Whole(3), Whole(1), Str("2")>>}}

InitMedian == InitWith(Files(MedianRows, {RawCols}, MaxMedianRows))

SpecMedian == InitMedian /\ [][Next]_vars

(* Files for the dates: every way order_date and time parse or fail. *)
TimeRows ==
    {RawRow(o, Str("A"), Str("X"), od, tm, Whole(2), Whole(1), Whole(1)) :
        o \in {Str("O1"), Str("O2")},
        od \in {NaN, Str("not-a-date"), Str("2024-01-06"), Str("2024-01-09")},
        tm \in {NaN, Str("25:99"), Str("10:30:00")}}

InitTime == InitWith(Files(TimeRows, {RawCols}, MaxRows))

SpecTime == InitTime /\ [][Next]_vars

(* Files for the schema: up to two of the columns absent. *)
SchemaRows ==
    {RawRow(Str("O1"), Str("A"), Str("X"), od, tm, p, Whole(1), Whole(1)) :
        od \in {Str("not-a-date"), Str("2024-01-06")},
        tm \in {Str("25:99"), Str("10:30:00")},
        p \in {Whole(0), Whole(2)}}

ColumnSets == {RawCols \ m : m \in {x \in SUBSET RawCols : Cardinality(x) <= 2}}

InitSchema == InitWith(Files(SchemaRows, ColumnSets, MaxRows))

SpecSchema == InitSchema /\ [][Next]_vars

-----------------------------------------------------------------------------
(* Vocabulary of the properties *)

Positions ==
    <<"load", "order_date", "time", "price", "discount", "quantity", "dropna",
      "fillna", "duplicates", "positive", "discount_le_price", "order_datetime",
      "revenue", "time_features", "preview", "univariate", "bivariate",
      "time_series", "customer", "product", "regional", "payment", "insights",
      "done">>

Index(p) == CHOOSE i \in 1..Len(Positions): Positions[i] = p

(* The statement the run stands at: after an exception, the one that raised. *)
Here == IF pc = "failed" THEN err.at ELSE pc

(* The statement at position p has run to its end. *)
Past(p) == Index(Here) > Index(p)

(* The cleaned set exists: the validity filter (line 34) has run. *)
Cleaned == Past("discount_le_price")

Rows == 1..Len(df)

(* The uploaded lines and their coerced amounts. *)
U == uploaded.rows
ULines == 1..Len(U)
UPrice(i) == ToNumeric(U[i]["price"])
UDiscount(i) == ToNumeric(U[i]["discount"])
UQuantity(i) == ToNumeric(U[i]["quantity"])

UKeyComplete(i) == \A k \in KeyCols: U[i][k].t \notin {"nan", "nat"}

(* Line i is the first key-complete line with its key triple. *)
UFirst(i) ==
    /\ UKeyComplete(i)
    /\ \A j \in 1..(i - 1): Key(U[j]) # Key(U[i])

(* The median by its definition: the mean of the two middle order           *)
(* statistics of the quantities of the lines I.                             *)
Kth(I, k) ==
    CHOOSE x \in {UQuantity(i).v : i \in I}:
        /\ Cardinality({i \in I: UQuantity(i).v < x}) < k
        /\ k <= Cardinality({i \in I: UQuantity(i).v <= x})

MedianOver(I) ==
    LET n == Cardinality(I)
    IN  IF n = 0 THEN NaN
        ELSE Num((Kth(I, (n + 1) \div 2) + Kth(I, (n + 2) \div 2)) \div 2)

WithQuantity == {i \in ULines: UQuantity(i).t = "num"}
KeyCompleteWithQuantity == {i \in WithQuantity: UKeyComplete(i)}

(* The quantity of line i after imputation from the key-complete lines. *)
Imputed(i) ==
    IF UQuantity(i).t = "num" THEN UQuantity(i)
    ELSE MedianOver(KeyCompleteWithQuantity)

(* Line i, after imputation, passes the validity filter. *)
UValid(i) ==
    /\ UPrice(i).t = "num" /\ UPrice(i).v > 0
    /\ Imputed(i).t = "num" /\ Imputed(i).v > 0
    /\ UDiscount(i).t = "num" /\ UDiscount(i).v <= UPrice(i).v

(* The uploaded line a row of the table comes from. *)
Line(r) == r["idx"] + 1

-----------------------------------------------------------------------------
(* C1: every record of the cleaned set has non-null order_id, product_id    *)
(* and customer_id, price > 0, quantity > 0 and a non-null discount with    *)
(* discount <= price.                                                       *)
C1_CleanedRecordsValid ==
    Cleaned =>
        \A n \in Rows:
            LET r == df[n] IN
            /\ \A k \in KeyCols: r[k].t \notin {"nan", "nat"}
            /\ r["price"].t = "num" /\ r["price"].v > 0
            /\ r["quantity"].t = "num" /\ r["quantity"].v > 0
            /\ r["discount"].t = "num" /\ r["discount"].v <= r["price"].v

(* A line valid but for its missing discount was dropped while another      *)
(* line survived.                                                           *)
C1_Witness ==
    /\ Cleaned
    /\ Len(df) = 1
    /\ \E i \in ULines:
        /\ UFirst(i)
        /\ UPrice(i).t = "num" /\ UPrice(i).v > 0
        /\ Imputed(i).t = "num" /\ Imputed(i).v > 0
        /\ UDiscount(i).t = "nan"

(* C2: no two records of the cleaned set share a key triple, and the record *)
(* kept for a triple is the first key-complete line with it, with that      *)
(* line's price, discount and (imputed) quantity.                           *)
C2_FirstOccurrenceKept ==
    Past("duplicates") =>
        /\ \A m, n \in Rows: m # n => Key(df[m]) # Key(df[n])
        /\ \A n \in Rows:
            LET r == df[n]
                i == Line(r) IN
            /\ i \in ULines
            /\ UFirst(i)
            /\ Key(r) = Key(U[i])
            /\ r["price"] = UPrice(i)
            /\ r["discount"] = UDiscount(i)
            /\ r["quantity"] = Imputed(i)

(* A record survived cleaning although a later line had its key and another *)
(* price.                                                                   *)
C2_Witness ==
    /\ Cleaned
    /\ \E n \in Rows: \E j \in ULines:
        /\ j > Line(df[n])
        /\ Key(U[j]) = Key(df[n])
        /\ UPrice(j) # df[n]["price"]

C4_MissingTimeIsMidnight ==
    Past("order_datetime") =>
        \A n \in Rows:
            LET r == df[n] IN
            /\ (r["order_date"].t = "date" /\ r["time"].t = "nat") =>
                   r["order_datetime"] = Datetime(r["order_date"].v, "00:00:00")
            /\ r["order_datetime"].t = "nat" =>
                   (r["order_date"].t = "nat" /\ r["time"].t = "nat")

(* C4 as amended: order_datetime is the order_date combined with the time   *)
(* when both parsed, and null when either is null; so a record whose time   *)
(* is null has a null order_datetime.                                       *)
C4_DatetimeNeedsDateAndTime ==
    Past("order_datetime") =>
        \A n \in Rows:
            LET r == df[n] IN
            r["order_datetime"] =
                IF r["order_date"].t = "date" /\ r["time"].t = "time"
                THEN Datetime(r["order_date"].v, r["time"].v)
                ELSE NaT

(* A record with a parsed order_date and a null time, next to a record with *)
(* both.                                                                    *)
C4_Witness ==
    /\ Past("order_datetime")
    /\ \E n \in Rows:
        /\ df[n]["order_date"].t = "date"
        /\ df[n]["time"].t = "nat"
        /\ df[n]["order_datetime"].t = "nat"
    /\ \E n \in Rows: df[n]["order_datetime"].t = "datetime"

(* C5: a line whose order_date is unparsable and which passes the key,      *)
(* duplicate and validity stages is in the table after feature engineering  *)
(* with a null order_datetime, its revenue computed, and day, week, month,  *)
(* hour and dayofweek unset (column absent or cell null).                   *)
C5_MalformedDateRowUnset ==
    Past("time_features") =>
        \A i \in ULines:
            (UFirst(i) /\ UValid(i) /\ ToDate(U[i]["order_date"]).t = "nat") =>
                \E n \in Rows:
                    LET r == df[n] IN
                    /\ Line(r) = i
                    /\ r["order_datetime"].t = "nat"
                    /\ r["revenue"].t = "num"
                    /\ r["revenue"].v * Scale
                          = Imputed(i).v * (UPrice(i).v - UDiscount(i).v)
                    /\ \A c \in TimeCols: c \notin columns \/ IsNull(r[c])

(* C6: the run fails if and only if a required column is missing, then with *)
(* a SchemaError naming the missing columns and before any cleaned table    *)
(* exists; with every column present it never fails.                        *)
MissingColumns == RawCols \ uploaded.columns

C6_FailsOnlyOnSchemaError ==
    /\ pc = "failed" =>
        /\ MissingColumns # {}
        /\ err.type = "SchemaError"
        /\ err.key = MissingColumns
        /\ ~Cleaned
    /\ pc = "done" => MissingColumns = {}

(* C7: every record of the cleaned set has revenue = quantity * (price -    *)
(* discount), exactly, from its own quantity after imputation; so revenue   *)
(* is never null.                                                           *)
C7_RevenueExact ==
    Past("revenue") =>
        \A n \in Rows:
            LET r == df[n] IN
            /\ r["revenue"].t = "num"
            /\ r["quantity"] = Imputed(Line(r))
            /\ r["revenue"].v * Scale
                  = r["quantity"].v * (r["price"].v - r["discount"].v)

(* A record whose quantity was imputed with a fraction has its revenue. *)
C7_Witness ==
    /\ Past("revenue")
    /\ \E n \in Rows:
        /\ UQuantity(Line(df[n])).t = "nan"
        /\ df[n]["quantity"].v % Scale # 0
        /\ df[n]["revenue"].v % Scale # 0

(* The cleaning stages, lines 18-34, run on a table t. *)
Reclean(t) ==
    FilterDiscount(FilterPositive(DropDuplicates(FillNaQuantity(DropNaKeys(
        CoerceQuantity(CoerceDiscount(CoercePrice(CoerceTime(
            CoerceOrderDate(t))))))))))

(* C8 as stated: cleaning the cleaned set again gives the same records in   *)
(* the same order.                                                          *)
C8_RecleanIsIdentity ==
    Cleaned => Reclean(df) = df

(* C8 as amended: cleaning the cleaned set again drops no record, imputes   *)
(* no quantity and keeps the order; the records are the same but for the    *)
(* time column, whose already coerced values become null when coerced a     *)
(* second time.                                                             *)
C8_RecleanKeepsAllButTime ==
    Cleaned => Reclean(df) = SetCol(df, "time", [n \in Rows |-> NaT])

(* Two records are in the cleaned set, one with an imputed quantity. *)
C8_Witness ==
    /\ Cleaned
    /\ Len(df) = 2
    /\ \E n \in Rows: UQuantity(Line(df[n])).t = "nan"
    /\ \E n \in Rows: df[n]["time"].t = "time"

(* The table after the time-series section: is_weekend added, true on       *)
(* Saturday and Sunday, nothing else touched.                               *)
OnlyIsWeekendAdded ==
    /\ "is_weekend" \notin columns
    /\ columns' = columns \cup {"is_weekend"}
    /\ Len(df') = Len(df)
    /\ \A n \in Rows:
        /\ \A c \in columns \cup {"idx"}: df'[n][c] = df[n][c]
        /\ df'[n]["is_weekend"] =
              Bool(df[n]["dayofweek"] \in {Str("Saturday"), Str("Sunday")})

C10_FirstOccurrenceDecides ==
    /\ [](Cleaned =>
            \A i \in ULines:
                UFirst(i) => (UValid(i) <=> \E n \in Rows: Key(df[n]) = Key(U[i])))
    /\ [][pc # "load" => Len(df') <= Len(df)]_vars

(* An invalid first occurrence kept its valid later duplicate out. *)
C10_Witness ==
    /\ Cleaned
    /\ \E i, j \in ULines:
        /\ UFirst(i) /\ ~UValid(i)
        /\ j > i /\ Key(U[j]) = Key(U[i])
        /\ UPrice(j).t = "num" /\ UPrice(j).v > 0
        /\ UQuantity(j).t = "num" /\ UQuantity(j).v > 0
        /\ UDiscount(j).t = "num" /\ UDiscount(j).v <= UPrice(j).v
        /\ \A n \in Rows: Key(df[n]) # Key(U[i])

====
